---- MODULE Spec2Model ----
(***************************************************************************)
(* Model of the AI-analysis layer of antigravity-bot                       *)
(* (src/utils/ai_analyzer.py) and of the callers of analyze().             *)
(*                                                                         *)
(* Time is a discrete clock `now`.  The rate-limit numbers of RATE_LIMIT   *)
(* and the length of the reset window (one day) are scaled down to a few   *)
(* clock ticks; the scaled numbers are the bounds of the model.            *)
(***************************************************************************)
EXTENDS Integers, Sequences, FiniteSets, TLC

(* ------------------------------ bounds -------------------------------- *)
\* scaled RATE_LIMIT["gemini"] (source: 10 / 1000 / 6)
GeminiPerMinute == 1
GeminiPerDay == 2
GeminiCooldown == 2
\* scaled RATE_LIMIT["claude"] (source: 20 / 5000 / 3)
ClaudePerMinute == 2
ClaudePerDay == 3
ClaudeCooldown == 0
\* scaled timedelta(days=1), in clock ticks
DayLength == 3
\* the clock stops here
MaxTime == 6

(* --------------------------- configuration ---------------------------- *)
RATE_LIMIT ==
    [gemini |-> [requests_per_minute |-> GeminiPerMinute,
                 requests_per_day |-> GeminiPerDay,
                 cooldown_seconds |-> GeminiCooldown],
     claude |-> [requests_per_minute |-> ClaudePerMinute,
                 requests_per_day |-> ClaudePerDay,
                 cooldown_seconds |-> ClaudeCooldown]]

Providers == DOMAIN RATE_LIMIT

\* provider names a caller may pass to check_rate_limit(provider: str)
ProviderArgs == Providers \cup {"other"}

\* RATE_LIMIT.get(provider, RATE_LIMIT["gemini"]) and
\* request_counter.get(provider, request_counter["gemini"]): the entry used
ProviderKey(provider) == IF provider \in Providers THEN provider ELSE "gemini"

\* the callers (handlers, jobs) that may be inside the module at once
Callers == {"c1", "c2"}

\* a caller that is in no call has no provider argument
NoArg == "-"

\* Python's None and a value that is not None: last_request is None or a time,
\* analyze() returns None or a string
None == << >>
Some(x) == <<x>>

\* no exception is propagating
NoExc == "-"

VARIABLES
    now,              \* datetime.now()
    request_counter,  \* provider -> [count, last_reset, last_request]
    sched,            \* how callers are scheduled: sequential / cooperative / preemptive
    pc,               \* caller -> position in the code
    arg,              \* caller -> the provider argument of its acquire call
    wake,             \* caller -> end of its cooldown sleep
    tmp,              \* caller -> counter["count"] as read by "+= 1"
    funcCalls,        \* provider entry -> wrapped-function calls since the last reset
    grants,           \* provider entry -> acquire calls returned since the last reset
    exc,              \* caller -> the exception that is propagating in it
    apiKey,           \* provider -> its API key is set in the environment
    healthy,          \* the providers whose service answers every call with a text
    client,           \* provider -> gemini_model / anthropic_client is initialised
    fn,               \* caller -> the function of the module it called
    kind,             \* caller -> the function that called analyze()
    prefer,           \* caller -> the prefer argument of analyze()
    attempt,          \* caller -> the loop variable of the adapter
    log,              \* caller -> what each provider invocation of the call gave
    waits,            \* caller -> the sleeps of the adapter, in seconds
    ret,              \* caller -> the string the adapter returned
    result,           \* caller -> what analyze() returned
    outcome,          \* caller -> how the calling function ended
    latest,           \* data["latest"] given to analyze_market_breadth
    ai_result,        \* what analyze() returns to analyze_market_breadth
    analysis,         \* what analyze_market_breadth returned or raised
    sheet,            \* the Momentum 50 sheet: its columns, left to right
    csv_result,       \* what parse_csv_content returned for the sheet
    html_result,      \* what parse_html_table returned for the sheet
    push_pc,          \* <<function, step>>: where daily_push_all is
    results,          \* push -> what the push returned
    messages,         \* the texts given to send_telegram_message, in order
    momentum,         \* data in push_momentum50
    raised            \* the exception that left daily_push_all

\* the variables of the rate limiter, of the environment, and of one call
limiterVars == <<request_counter, funcCalls, grants>>
envVars == <<sched, apiKey, healthy>>
callVars == <<fn, kind, prefer, attempt, log, waits, ret, result, outcome>>

\* the variables of daily_push_all, and of the functions that work on
\* scraped data
pushVars == <<push_pc, results, messages, momentum, raised>>

dataVars == <<latest, ai_result, analysis, sheet, csv_result, html_result, pushVars>>

vars == <<now, limiterVars, pc, arg, wake, tmp, exc, envVars, client, callVars, dataVars>>

(* ------------------------------ strings ------------------------------ *)
\* A string is a sequence of symbols: a symbol is one character, or one of the
\* two phrases the module tests for (lines 166, 185, 189, 277).
FAILED == "<analysis failed>"
NOT_CONFIGURED == "<not configured>"

\* str.startswith
StartsWith(s, prefix) ==
    /\ Len(s) >= Len(prefix)
    /\ SubSeq(s, 1, Len(prefix)) = prefix

\* needle in s
Contains(s, needle) ==
    \E i \in 1..(Len(s) - Len(needle) + 1) : SubSeq(s, i, i + Len(needle) - 1) = needle

\* str.lower, on the letters the error messages below use
LowerChar(ch) ==
    CASE ch = "R" -> "r"
      [] ch = "Q" -> "q"
      [] OTHER -> ch
Lower(s) == [i \in 1..Len(s) |-> LowerChar(s[i])]

\* what the provider may answer: a generated text ...
ProviderTexts ==
    {<< >>, <<"o", "k">>, <<FAILED, "o">>, <<"o", FAILED>>, <<"o", NOT_CONFIGURED>>}
\* ... or an exception with a message: "Rate", "Quota", "429", "key"
ErrorMessages ==
    {<<"R", "a", "t", "e">>, <<"Q", "u", "o", "t", "a">>, <<"4", "2", "9">>,
     <<"k", "e", "y">>}

\* line 166 / 231, line 189 / 258, line 185 / 254
NotConfiguredMessage(provider) == <<provider, " ", "A", "P", "I", " ", NOT_CONFIGURED>>
RetriesExceededMessage == <<FAILED, ":", " ", "max">>
FailedMessage(msg) == <<FAILED, ":", " ">> \o msg

(* ---------------------------- rate limiter ---------------------------- *)
\* line 78/105: datetime.now() - counter["last_reset"] > timedelta(days=1)
WindowElapsedAtOnce(t, counter) == t - counter.last_reset >= 0
WindowElapsedOnBoundary(t, counter) == t - counter.last_reset >= DayLength
WindowElapsed(t, counter) == t - counter.last_reset > DayLength

\* lines 79-80 / 106-107: counter["count"] = 0; counter["last_reset"] = now
ResetCounterKeepCount(counter, t) == [counter EXCEPT !.last_reset = t]
ResetCounterAll(counter, t) == [count |-> 0, last_reset |-> t, last_request |-> None]
ResetCounter(counter, t) == [counter EXCEPT !.count = 0, !.last_reset = t]

\* line 83/110: counter["count"] >= config["requests_per_day"]
LimitReachedOnEmpty(counter, config) == counter.count >= 0
LimitReachedAbove(counter, config) == counter.count > config.requests_per_day + 1
LimitReachedOffByOne(counter, config) == counter.count > config.requests_per_day
LimitReached(counter, config) == counter.count >= config.requests_per_day

\* lines 87-90 / 114-117: the remaining cooldown, 0 when none is due
WaitTime(t, counter, config) ==
    IF counter.last_request # None
    THEN LET elapsed == t - counter.last_request[1]
         IN  IF elapsed < config.cooldown_seconds
             THEN config.cooldown_seconds - elapsed
             ELSE 0
    ELSE 0

\* the scheduling of the callers: time.sleep (line 119) blocks the whole
\* process, await asyncio.sleep (line 92) is the only point where a coroutine
\* lets another one run, threads are switched anywhere
MayRun(c) ==
    CASE sched = "sequential"  -> \A d \in Callers \ {c} : pc[d] = "idle"
      [] sched = "cooperative" -> \A d \in Callers \ {c} : pc[d] \in {"idle", "sleep"}
      [] OTHER                 -> TRUE

\* the clock; the statements of a call take no time on its scale
Tick ==
    /\ now < MaxTime
    /\ \A c \in Callers : pc[c] \in {"idle", "sleep"}
    /\ now' = now + 1
    /\ UNCHANGED <<dataVars, limiterVars, pc, arg, wake, tmp, exc, envVars, client, callVars>>

\* lines 55-62: a caller calls a function decorated with @rate_limit(provider);
\* lines 72-75 / 99-102: the wrapper enters check_rate_limit(provider)
Enter(c, provider) ==
    /\ pc[c] = "idle"
    /\ MayRun(c)
    /\ pc' = [pc EXCEPT ![c] = "reset"]
    /\ arg' = [arg EXCEPT ![c] = provider]
    /\ fn' = [fn EXCEPT ![c] = "rate_limit"]
    /\ UNCHANGED <<dataVars, now, limiterVars, wake, tmp, exc, envVars, client>>
    /\ UNCHANGED <<kind, prefer, attempt, log, waits, ret, result, outcome>>

\* lines 77-80 / 104-107: reset of the daily count
ResetStep(c) ==
    /\ pc[c] = "reset"
    /\ MayRun(c)
    /\ LET k == ProviderKey(arg[c])
       IN  IF WindowElapsed(now, request_counter[k])
           THEN /\ request_counter' =
                       [request_counter EXCEPT ![k] = ResetCounter(@, now)]
                /\ funcCalls' = [funcCalls EXCEPT ![k] = 0]
                /\ grants' = [grants EXCEPT ![k] = 0]
           ELSE UNCHANGED limiterVars
    /\ pc' = [pc EXCEPT ![c] = "check"]
    /\ UNCHANGED <<dataVars, now, arg, wake, tmp, exc, envVars, client, callVars>>

\* lines 82-84 / 109-111: the daily limit; RateLimitExceeded is raised
CheckStep(c) ==
    /\ pc[c] = "check"
    /\ MayRun(c)
    /\ LET k == ProviderKey(arg[c])
       IN  IF LimitReached(request_counter[k], RATE_LIMIT[k])
           THEN /\ pc' = [pc EXCEPT ![c] = "raised"]
                /\ exc' = [exc EXCEPT ![c] = "RateLimitExceeded"]
           ELSE /\ pc' = [pc EXCEPT ![c] = "cooldown"]
                /\ exc' = exc
    /\ UNCHANGED <<dataVars, now, limiterVars, arg, wake, tmp, envVars, client, callVars>>

\* lines 86-92 / 113-119: the cooldown; the caller sleeps for wait_time
CooldownStep(c) ==
    /\ pc[c] = "cooldown"
    /\ MayRun(c)
    /\ LET k == ProviderKey(arg[c])
           wait_time == WaitTime(now, request_counter[k], RATE_LIMIT[k])
       IN  IF wait_time > 0
           THEN /\ wake' = [wake EXCEPT ![c] = now + wait_time]
                /\ pc' = [pc EXCEPT ![c] = "sleep"]
           ELSE /\ wake' = wake
                /\ pc' = [pc EXCEPT ![c] = "inc"]
    /\ UNCHANGED <<dataVars, now, limiterVars, arg, tmp, exc, envVars, client, callVars>>

\* line 92 / 119: the sleep is over
WakeStep(c) ==
    /\ pc[c] = "sleep"
    /\ MayRun(c)
    /\ now >= wake[c]
    /\ pc' = [pc EXCEPT ![c] = "inc"]
    /\ UNCHANGED <<dataVars, now, limiterVars, arg, wake, tmp, exc, envVars, client, callVars>>

\* line 95 / 122: counter["count"] += 1 reads the count ...
IncRead(c) ==
    /\ pc[c] = "inc"
    /\ MayRun(c)
    /\ tmp' = [tmp EXCEPT ![c] = request_counter[ProviderKey(arg[c])].count]
    /\ pc' = [pc EXCEPT ![c] = "store"]
    /\ UNCHANGED <<dataVars, now, limiterVars, arg, wake, exc, envVars, client, callVars>>

\* ... and stores the count plus one
IncWrite(c) ==
    /\ pc[c] = "store"
    /\ MayRun(c)
    /\ request_counter' =
           [request_counter EXCEPT ![ProviderKey(arg[c])].count = tmp[c] + 1]
    /\ tmp' = [tmp EXCEPT ![c] = 0]
    /\ pc' = [pc EXCEPT ![c] = "stamp"]
    /\ UNCHANGED <<dataVars, now, funcCalls, grants, arg, wake, exc, envVars, client, callVars>>

\* line 96 / 123: counter["last_request"] = datetime.now(); acquire returns
StampStep(c) ==
    /\ pc[c] = "stamp"
    /\ MayRun(c)
    /\ LET k == ProviderKey(arg[c])
       IN  /\ request_counter' = [request_counter EXCEPT ![k].last_request = Some(now)]
           /\ grants' = [grants EXCEPT ![k] = @ + 1]
    /\ wake' = [wake EXCEPT ![c] = 0]
    /\ pc' = [pc EXCEPT ![c] = "granted"]
    /\ UNCHANGED <<dataVars, now, funcCalls, arg, tmp, exc, envVars, client, callVars>>

\* lines 57 / 62: the wrapper calls the wrapped function after the check
WrappedCall(c) ==
    /\ pc[c] = "granted"
    /\ fn[c] = "rate_limit"
    /\ MayRun(c)
    /\ funcCalls' = [funcCalls EXCEPT ![ProviderKey(arg[c])] = @ + 1]
    /\ pc' = [pc EXCEPT ![c] = "idle"]
    /\ arg' = [arg EXCEPT ![c] = NoArg]
    /\ fn' = [fn EXCEPT ![c] = NoArg]
    /\ UNCHANGED <<dataVars, now, request_counter, grants, wake, tmp, exc, envVars, client>>
    /\ UNCHANGED <<kind, prefer, attempt, log, waits, ret, result, outcome>>

\* lines 56 / 61: RateLimitExceeded leaves the wrapper, the function is not called
WrappedRaise(c) ==
    /\ pc[c] = "raised"
    /\ fn[c] = "rate_limit"
    /\ MayRun(c)
    /\ pc' = [pc EXCEPT ![c] = "idle"]
    /\ arg' = [arg EXCEPT ![c] = NoArg]
    /\ fn' = [fn EXCEPT ![c] = NoArg]
    /\ exc' = [exc EXCEPT ![c] = NoExc]
    /\ UNCHANGED <<dataVars, now, limiterVars, wake, tmp, envVars, client>>
    /\ UNCHANGED <<kind, prefer, attempt, log, waits, ret, result, outcome>>

Acquire(c) ==
    \/ ResetStep(c)
    \/ CheckStep(c)
    \/ CooldownStep(c)
    \/ WakeStep(c)
    \/ IncRead(c)
    \/ IncWrite(c)
    \/ StampStep(c)

\* lines 99-123: check_rate_limit_sync(provider) called at time t as one
\* function of the counters: whether it raises, how long it sleeps, and the
\* counter entry it leaves (last_request is the time after the sleep)
CheckRateLimitSync(counters, provider, t) ==
    LET config == RATE_LIMIT[ProviderKey(provider)]
        counter == counters[ProviderKey(provider)]
        afterReset == IF WindowElapsed(t, counter) THEN ResetCounter(counter, t) ELSE counter
        wait_time == WaitTime(t, afterReset, config)
    IN  IF LimitReached(afterReset, config)
        THEN [raised |-> TRUE, wait |-> 0, counter |-> afterReset]
        ELSE [raised |-> FALSE, wait |-> wait_time,
              counter |-> [afterReset EXCEPT !.count = @ + 1,
                                             !.last_request = Some(t + wait_time)]]

\* lines 72-96: check_rate_limit(provider), the coroutine, in the same terms,
\* statement by statement
CheckRateLimit(counters, provider, t) ==
    LET config == IF provider \in DOMAIN RATE_LIMIT
                  THEN RATE_LIMIT[provider] ELSE RATE_LIMIT["gemini"]
        counter == IF provider \in DOMAIN counters
                   THEN counters[provider] ELSE counters["gemini"]
        \* lines 77-80
        afterReset == IF t - counter.last_reset > DayLength
                      THEN [counter EXCEPT !.count = 0, !.last_reset = t]
                      ELSE counter
        \* lines 86-92
        elapsed == t - afterReset.last_request[1]
        wait_time == IF afterReset.last_request # None
                        /\ elapsed < config.cooldown_seconds
                     THEN config.cooldown_seconds - elapsed
                     ELSE 0
    IN  \* lines 82-84
        IF afterReset.count >= config.requests_per_day
        THEN [raised |-> TRUE, wait |-> 0, counter |-> afterReset]
        \* lines 94-96
        ELSE [raised |-> FALSE, wait |-> wait_time,
              counter |-> [afterReset EXCEPT !.count = @ + 1,
                                             !.last_request = Some(t + wait_time)]]

(* -------------------------- provider adapters ------------------------- *)
\* lines 25, 30: "cooldown_seconds" of gemini and of claude, in seconds
GeminiCooldownSeconds == 6
ClaudeCooldownSeconds == 3
COOLDOWN_SECONDS == [gemini |-> GeminiCooldownSeconds, claude |-> ClaudeCooldownSeconds]

\* analyze_with_gemini / analyze_with_claude: max_retries: int = 3
MaxRetries == 3
\* lines 177 / 247: wait_time = 30 * (attempt + 1)
BackoffBase == 30
\* lines 187 / 256: time.sleep(5)
RetryPause == 5

RATE == <<"r", "a", "t", "e">>
QUOTA == <<"q", "u", "o", "t", "a">>
HTTP429 == <<"4", "2", "9">>

\* line 173 / 244: error_msg = str(e).lower(); line 176: gemini tests for
\* "rate", "quota" and "429"; line 246: claude tests for "rate" and "429"
IsRateLimitError(provider, msg) ==
    LET error_msg == Lower(msg)
    IN  IF provider = "gemini"
        THEN Contains(error_msg, RATE) \/ Contains(error_msg, QUOTA)
                 \/ Contains(error_msg, HTTP429)
        ELSE Contains(error_msg, RATE) \/ Contains(error_msg, HTTP429)

\* lines 168 / 233: for attempt in range(max_retries): another iteration follows
LoopContinuesOnceMore(n) == n + 1 < MaxRetries + 1
LoopEndsOneEarly(n) == n + 2 < MaxRetries
LoopContinues(n) == n + 1 < MaxRetries

\* lines 184 / 253: if attempt == max_retries - 1: return the failure
GivesUpAtOnce(n) == TRUE
GivesUp(n) == n = MaxRetries - 1

\* lines 177 / 247
BackoffFromZero(n) == BackoffBase * n
Backoff(n) == BackoffBase * (n + 1)

\* what one invocation of the provider gives: a text or an exception
ProviderOutcomes(provider) ==
    LET texts == {[ok |-> TRUE, text |-> t] : t \in ProviderTexts}
        errors == {[ok |-> FALSE, text |-> m] : m \in ErrorMessages}
    IN  IF provider \in healthy THEN texts ELSE texts \cup errors

\* an error message with a rate, quota or 429 marker
HasMarker(msg) ==
    \/ Contains(Lower(msg), RATE)
    \/ Contains(Lower(msg), QUOTA)
    \/ Contains(Lower(msg), HTTP429)

\* the entry of the log for one invocation
LogEntry(o) == IF o.ok THEN "ok" ELSE IF HasMarker(o.text) THEN "marked" ELSE "unmarked"

\* lines 131-147 / 197-212: init_gemini / init_claude: False without the key,
\* and when the import or the construction of the client raises
InitResults(provider) ==
    IF ~apiKey[provider] THEN {FALSE}
    ELSE IF provider \in healthy THEN {TRUE} ELSE BOOLEAN

\* lines 164-166 / 229-231: the wrapped function starts: the client is
\* initialised on first use, "... API not configured" is returned without it
AdapterInit(c) ==
    /\ pc[c] = "granted"
    /\ fn[c] \in {"analyze", "adapter"}
    /\ MayRun(c)
    /\ LET p == arg[c]
       IN  IF client[p]
           THEN /\ pc' = [pc EXCEPT ![c] = "attempt"]
                /\ UNCHANGED <<client, ret>>
           ELSE \E initialised \in InitResults(p) :
                  IF initialised
                  THEN /\ client' = [client EXCEPT ![p] = TRUE]
                       /\ pc' = [pc EXCEPT ![c] = "attempt"]
                       /\ ret' = ret
                  ELSE /\ client' = client
                       /\ pc' = [pc EXCEPT ![c] = "adapter_ret"]
                       /\ ret' = [ret EXCEPT ![c] = Some(NotConfiguredMessage(p))]
    /\ attempt' = [attempt EXCEPT ![c] = 0]
    /\ UNCHANGED <<dataVars, now, limiterVars, arg, wake, tmp, exc, envVars>>
    /\ UNCHANGED <<fn, kind, prefer, log, waits, result, outcome>>

\* lines 168-189 / 233-258: one iteration of the retry loop
AdapterAttempt(c) ==
    /\ pc[c] = "attempt"
    /\ MayRun(c)
    /\ \E o \in ProviderOutcomes(arg[c]) :
         LET p == arg[c]
             n == attempt[c]
             \* the loop goes on, or ends and line 189 / 258 returns
             again == /\ attempt' = [attempt EXCEPT ![c] = n + 1]
                      /\ IF LoopContinues(n)
                         THEN UNCHANGED <<pc, ret>>
                         ELSE /\ pc' = [pc EXCEPT ![c] = "adapter_ret"]
                              /\ ret' = [ret EXCEPT ![c] = Some(RetriesExceededMessage)]
         IN  /\ log' = [log EXCEPT ![c] = Append(@, LogEntry(o))]
             /\ IF o.ok
                THEN \* lines 170-171 / 235-242
                     /\ ret' = [ret EXCEPT ![c] = Some(o.text)]
                     /\ pc' = [pc EXCEPT ![c] = "adapter_ret"]
                     /\ UNCHANGED <<attempt, waits>>
                ELSE IF IsRateLimitError(p, o.text)
                THEN \* lines 176-180 / 246-250
                     /\ waits' = [waits EXCEPT ![c] = Append(@, Backoff(n))]
                     /\ again
                ELSE IF GivesUp(n)
                THEN \* lines 184-185 / 253-254
                     /\ ret' = [ret EXCEPT ![c] = Some(FailedMessage(o.text))]
                     /\ pc' = [pc EXCEPT ![c] = "adapter_ret"]
                     /\ UNCHANGED <<attempt, waits>>
                ELSE \* line 187 / 256
                     /\ waits' = [waits EXCEPT ![c] = Append(@, RetryPause)]
                     /\ again
    /\ UNCHANGED <<dataVars, now, limiterVars, arg, wake, tmp, exc, envVars, client>>
    /\ UNCHANGED <<fn, kind, prefer, result, outcome>>

\* a call is over: its local variables are gone
EndCall(c) ==
    /\ pc' = [pc EXCEPT ![c] = "idle"]
    /\ arg' = [arg EXCEPT ![c] = NoArg]
    /\ exc' = [exc EXCEPT ![c] = NoExc]
    /\ fn' = [fn EXCEPT ![c] = NoArg]
    /\ kind' = [kind EXCEPT ![c] = NoArg]
    /\ prefer' = [prefer EXCEPT ![c] = NoArg]
    /\ attempt' = [attempt EXCEPT ![c] = 0]
    /\ log' = [log EXCEPT ![c] = << >>]
    /\ waits' = [waits EXCEPT ![c] = << >>]
    /\ ret' = [ret EXCEPT ![c] = None]
    /\ result' = [result EXCEPT ![c] = None]
    /\ outcome' = [outcome EXCEPT ![c] = NoArg]
    /\ UNCHANGED <<dataVars, now, limiterVars, wake, tmp, envVars, client>>

\* lines 150-151 / 215-216: a direct call of analyze_with_gemini(prompt) or
\* analyze_with_claude(prompt)
AdapterCall(c, provider) ==
    /\ pc[c] = "idle"
    /\ MayRun(c)
    /\ pc' = [pc EXCEPT ![c] = "reset"]
    /\ arg' = [arg EXCEPT ![c] = provider]
    /\ fn' = [fn EXCEPT ![c] = "adapter"]
    /\ UNCHANGED <<dataVars, now, limiterVars, wake, tmp, exc, envVars, client>>
    /\ UNCHANGED <<kind, prefer, attempt, log, waits, ret, result, outcome>>

\* the direct call returns its string, or RateLimitExceeded leaves it
AdapterReturn(c) ==
    /\ pc[c] \in {"adapter_ret", "raised"}
    /\ fn[c] = "adapter"
    /\ MayRun(c)
    /\ EndCall(c)

(* ------------------------------- router ------------------------------- *)
\* the functions that call analyze(prompt, prefer="gemini"):
\* ai_analyzer.py lines 346, 455, 567, gmail_brief.py lines 228, 270
CallerKinds ==
    {"analyze_market_breadth", "analyze_momentum_stocks", "get_ticker_descriptions",
     "summarize_email_with_ai", "generate_gmail_brief"}

\* line 276: result = analyze_with_gemini(prompt), whatever prefer is
AnalyzeProviderPreferred(p) == p
AnalyzeProvider(p) == "gemini"

\* lines 277-280: the string of the adapter is returned unless it starts with
\* the failure phrase or contains the not-configured phrase; else None
AnalyzeResultUnfiltered(s) == Some(s)
AnalyzeResult(s) ==
    IF ~StartsWith(s, <<FAILED>>) /\ ~Contains(s, <<NOT_CONFIGURED>>)
    THEN Some(s)
    ELSE None

\* lines 281-286: except RateLimitExceeded, except Exception
AnalyzeCatchesNothing(e) == FALSE
AnalyzeCatches(e) == e \in {"RateLimitExceeded", "Exception"}

\* if ai_result: / if result: / if not overall_summary:
Truthy(r) == r # None /\ r[1] # << >>

\* what the caller does with the result of analyze: lines 349-353, 458-463,
\* gmail_brief.py lines 229-231 and 271-272 fall back to the rule-based text;
\* line 570 calls result.strip()
CallerOutcome(k, r) ==
    IF k = "get_ticker_descriptions"
    THEN IF r = None THEN "AttributeError" ELSE "ai"
    ELSE IF Truthy(r) THEN "ai" ELSE "fallback"

\* a caller calls analyze(prompt, prefer); line 276 calls the gemini adapter
AnalyzeCall(c, k, p) ==
    /\ pc[c] = "idle"
    /\ MayRun(c)
    /\ pc' = [pc EXCEPT ![c] = "reset"]
    /\ arg' = [arg EXCEPT ![c] = AnalyzeProvider(p)]
    /\ fn' = [fn EXCEPT ![c] = "analyze"]
    /\ kind' = [kind EXCEPT ![c] = k]
    /\ prefer' = [prefer EXCEPT ![c] = p]
    /\ UNCHANGED <<dataVars, now, limiterVars, wake, tmp, exc, envVars, client>>
    /\ UNCHANGED <<attempt, log, waits, ret, result, outcome>>

\* lines 276-280: the adapter returned
AnalyzeReturn(c) ==
    /\ pc[c] = "adapter_ret"
    /\ fn[c] = "analyze"
    /\ MayRun(c)
    /\ result' = [result EXCEPT ![c] = AnalyzeResult(ret[c][1])]
    /\ pc' = [pc EXCEPT ![c] = "returned"]
    /\ UNCHANGED <<dataVars, now, limiterVars, arg, wake, tmp, exc, envVars, client>>
    /\ UNCHANGED <<fn, kind, prefer, attempt, log, waits, ret, outcome>>

\* lines 281-286: the rate limiter raised
AnalyzeExcept(c) ==
    /\ pc[c] = "raised"
    /\ fn[c] = "analyze"
    /\ MayRun(c)
    /\ IF AnalyzeCatches(exc[c])
       THEN /\ exc' = [exc EXCEPT ![c] = NoExc]
            /\ result' = [result EXCEPT ![c] = None]
       ELSE UNCHANGED <<exc, result>>
    /\ pc' = [pc EXCEPT ![c] = "returned"]
    /\ UNCHANGED <<dataVars, now, limiterVars, arg, wake, tmp, envVars, client>>
    /\ UNCHANGED <<fn, kind, prefer, attempt, log, waits, ret, outcome>>

\* the caller of analyze goes on with the result
CallerHandle(c) ==
    /\ pc[c] = "returned"
    /\ MayRun(c)
    /\ outcome' = [outcome EXCEPT ![c] =
                      IF exc[c] # NoExc THEN exc[c] ELSE CallerOutcome(kind[c], result[c])]
    /\ pc' = [pc EXCEPT ![c] = "done"]
    /\ UNCHANGED <<dataVars, now, limiterVars, arg, wake, tmp, exc, envVars, client>>
    /\ UNCHANGED <<fn, kind, prefer, attempt, log, waits, ret, result>>

\* the caller returns
CallerReturn(c) ==
    /\ pc[c] = "done"
    /\ MayRun(c)
    /\ EndCall(c)

(* ----------------------- analyze_market_breadth ----------------------- *)
\* A Python value of a field of the record: a number (an int, or a float
\* given in tenths), a string that spells a number, the string 'N/A', another
\* string, None, or no such key
Num(n) == [type |-> "num", val |-> n]
NumStr(n) == [type |-> "numstr", val |-> n]
NA == [type |-> "na", val |-> 0]
Text == [type |-> "text", val |-> 0]
PyNone == [type |-> "none", val |-> 0]
Missing == [type |-> "missing", val |-> 0]

\* lines 307-312 and 316-321, in the order of the statements
Fields == <<"up_4pct", "down_4pct", "ratio_5d", "ratio_10d", "up_25pct_qtr", "down_25pct_qtr">>

\* lines 374, 378, 384: the thresholds of the extreme signals
BottomZone == 350
Overheated == 1000
Panic == 500
\* lines 378, 392, 394: the thresholds of ratio_5d (2, 1.2, 0.8), in tenths
RatioHot == 20
RatioUp == 12
RatioDown == 8
\* lines 309-310: the default ratio 1.0, in tenths
RatioDefault == 10

\* lines 307-312: latest.get(field, default)
Default(field) ==
    IF field \in {"ratio_5d", "ratio_10d"} THEN Num(RatioDefault) ELSE Num(0)
Get(record, field) ==
    IF record[field].type = "missing" THEN Default(field) ELSE record[field]

\* lines 316-321: int(x) / float(x) raises ValueError for a string that
\* spells no number and TypeError for None
ConversionRaises(v) == v.type \in {"text", "none"}
\* x converted: 'N/A' gives the default, a number or its spelling the number
Converted(field, v) ==
    IF v.type = "na" THEN Default(field) ELSE Num(v.val)

\* lines 315-323: the conversions run in order inside one try block; the
\* first one that raises ends the block, and the fields from that one on keep
\* the value they had
FirstRaising(record) ==
    LET bad == {i \in 1..Len(Fields) : ConversionRaises(Get(record, Fields[i]))}
    IN  IF bad = {} THEN Len(Fields) + 1
        ELSE CHOOSE i \in bad : \A j \in bad : i <= j
Values(record) ==
    [f \in {Fields[i] : i \in 1..Len(Fields)} |->
        LET i == CHOOSE j \in 1..Len(Fields) : Fields[j] = f
        IN  IF i < FirstRaising(record)
            THEN Converted(f, Get(record, f))
            ELSE Get(record, f)]

\* a comparison or a product with a number raises TypeError on a str or None
IsNumber(v) == v.type = "num"

\* lines 357, 359 / 365, 367: a > b * 1.5
MuchMore(a, b) == 2 * a > 3 * b

\* lines 357-362: the short-term line
ShortTerm(v) ==
    IF MuchMore(v.up_4pct.val, v.down_4pct.val) THEN "short_strong"
    ELSE IF MuchMore(v.down_4pct.val, v.up_4pct.val) THEN "short_weak"
    ELSE "short_flat"

\* lines 365-370: the mid-term line
MidTerm(v) ==
    IF MuchMore(v.up_25pct_qtr.val, v.down_25pct_qtr.val) THEN "mid_strong"
    ELSE IF MuchMore(v.down_25pct_qtr.val, v.up_25pct_qtr.val) THEN "mid_weak"
    ELSE "mid_flat"

\* lines 374 / 388
InBottomZone(v) == v.up_25pct_qtr.val < BottomZone /\ v.up_25pct_qtr.val > 0
\* lines 378 / 390
IsOverheated(v) == v.up_4pct.val > Overheated /\ v.ratio_5d.val > RatioHot

\* lines 374-385: the signal lines
Signals(v) ==
    (IF InBottomZone(v) THEN <<"signal_bottom">> ELSE << >>)
    \o (IF IsOverheated(v) THEN <<"signal_overheated">>
        ELSE IF v.up_4pct.val > Overheated THEN <<"signal_hot">>
        ELSE << >>)
    \o (IF v.down_4pct.val > Panic THEN <<"signal_panic">> ELSE << >>)

\* lines 388-397: the advice line
AdviceTrendFirst(v) ==
    IF v.ratio_5d.val > RatioUp /\ v.up_4pct.val > v.down_4pct.val THEN "advice_uptrend"
    ELSE IF InBottomZone(v) THEN "advice_bottom"
    ELSE IF IsOverheated(v) THEN "advice_overheated"
    ELSE IF v.ratio_5d.val < RatioDown /\ v.down_4pct.val > v.up_4pct.val
    THEN "advice_downtrend"
    ELSE "advice_wait"
Advice(v) ==
    IF InBottomZone(v) THEN "advice_bottom"
    ELSE IF IsOverheated(v) THEN "advice_overheated"
    ELSE IF v.ratio_5d.val > RatioUp /\ v.up_4pct.val > v.down_4pct.val
    THEN "advice_uptrend"
    ELSE IF v.ratio_5d.val < RatioDown /\ v.down_4pct.val > v.up_4pct.val
    THEN "advice_downtrend"
    ELSE "advice_wait"

\* lines 357-397: the rule-based part raises TypeError when a comparison it
\* evaluates meets a value that is no number: lines 357 and 365 always
\* compare the four counts; ratio_5d is compared at line 378 when
\* up_4pct > 1000 (the "and" does not evaluate it otherwise), and at lines
\* 390-394 when the bottom-zone advice is not taken
RuleBasedRaises(v) ==
    \/ ~IsNumber(v.up_4pct)
    \/ ~IsNumber(v.down_4pct)
    \/ ~IsNumber(v.up_25pct_qtr)
    \/ ~IsNumber(v.down_25pct_qtr)
    \/ /\ ~IsNumber(v.ratio_5d)
       /\ v.up_4pct.val > Overheated \/ ~InBottomZone(v)

\* the record data.get("latest") is missing or empty; the function has not run
NoRecord == [f \in {Fields[i] : i \in 1..Len(Fields)} |-> Missing]
NotRun == [exc |-> NoExc, lines |-> <<"-">>]

\* lines 291-399: analyze_market_breadth(data) returns a text, given by its
\* lines, or raises
Breadth(record, ai) ==
    IF record = NoRecord
    THEN \* lines 301-302
         [exc |-> NoExc, lines |-> <<"no_data">>]
    ELSE IF Truthy(ai)
    THEN \* lines 349-350
         [exc |-> NoExc, lines |-> <<"ai">>]
    ELSE LET v == Values(record)
         IN  IF RuleBasedRaises(v)
             THEN [exc |-> "TypeError", lines |-> << >>]
             ELSE [exc |-> NoExc,
                   lines |-> <<ShortTerm(v), MidTerm(v)>> \o Signals(v) \o <<Advice(v)>>]

\* analyze_market_breadth is called with the record and the result of analyze()
AnalyzeMarketBreadth ==
    /\ analysis = NotRun
    /\ analysis' = Breadth(latest, ai_result)
    /\ UNCHANGED <<now, limiterVars, pc, arg, wake, tmp, exc, envVars, client, callVars>>
    /\ UNCHANGED <<latest, ai_result, sheet, csv_result, html_result, pushVars>>

(* ------------------------ momentum50.py parsers ----------------------- *)
\* A sheet is the sequence of its columns; a column is the text of its cell
\* in the first row (header) and the set of valid tickers among its cells in
\* rows 2 to 51 (is_valid_ticker, momentum50.py lines 331-343).  A header is
\* empty, a date ("d1", "d2", "d3") or another text ("x").
\* the valid tickers of the sheets
Tickers == {"A", "B"}
NoDate == ""
IsDate(h) == h \in {"d1", "d2", "d3"}

\* the parser returned None; it has not run
ParsedNone == [ok |-> FALSE, latest_date |-> NoDate, tickers |-> {},
               new_entries |-> {}, dropped |-> {}]
NotParsed == [ok |-> FALSE, latest_date |-> "-", tickers |-> {},
              new_entries |-> {}, dropped |-> {}]

Headers(columns) == [i \in 1..Len(columns) |-> columns[i].header]

\* momentum50.py lines 193-269: parse_csv_content
ParseCsvContent(columns) ==
    LET \* lines 216-231: history[date] = tickers for every column with a
        \* non-empty header and at least one ticker; a later column with the
        \* same header replaces an earlier one
        Filled(h) == {i \in 1..Len(columns) :
                         columns[i].header = h /\ columns[i].cells # {}}
        InHistory(h) == h # NoDate /\ Filled(h) # {}
        History(h) == columns[CHOOSE i \in Filled(h) : \A j \in Filled(h) : j <= i].cells
        \* line 252
        sorted_dates == SelectSeq(Headers(columns), InHistory)
    IN  IF sorted_dates = << >>
        THEN \* lines 211-213, 233-235
             ParsedNone
        ELSE LET \* lines 238-246
                 latest_date == sorted_dates[1]
                 latest_tickers == History(latest_date)
                 \* lines 253-259
                 two == Len(sorted_dates) >= 2
                 prev_tickers == IF two THEN History(sorted_dates[2]) ELSE {}
             IN  [ok |-> TRUE, latest_date |-> latest_date, tickers |-> latest_tickers,
                  new_entries |-> IF two THEN latest_tickers \ prev_tickers ELSE {},
                  dropped |-> IF two THEN prev_tickers \ latest_tickers ELSE {}]

\* momentum50.py lines 272-328: parse_html_table
ParseHtmlTable(columns) ==
    LET \* lines 282-286: the header cells that are dates, in order
        dates == SelectSeq(Headers(columns), IsDate)
        \* lines 292-300: the cell at position col_idx of a row goes to
        \* dates[col_idx]
        History(d) == UNION {columns[j].cells :
                                j \in {i \in 1..Len(columns) :
                                          i <= Len(dates) /\ dates[i] = d}}
    IN  IF dates = << >> \/ \A i \in 1..Len(dates) : History(dates[i]) = {}
        THEN \* lines 288-289, 305-306
             ParsedNone
        ELSE LET \* lines 308-309
                 first == History(dates[1]) # {}
                 latest_tickers == IF first THEN History(dates[1]) ELSE {}
                 \* lines 315-319
                 two == Len(dates) >= 2 /\ History(dates[2]) # {}
                 prev_tickers == IF two THEN History(dates[2]) ELSE {}
             IN  [ok |-> TRUE,
                  latest_date |-> IF first THEN dates[1] ELSE NoDate,
                  tickers |-> latest_tickers,
                  new_entries |-> IF two THEN latest_tickers \ prev_tickers ELSE {},
                  dropped |-> IF two THEN prev_tickers \ latest_tickers ELSE {}]

\* the CSV export of the sheet is parsed
ParseCsv ==
    /\ csv_result = NotParsed
    /\ csv_result' = ParseCsvContent(sheet)
    /\ UNCHANGED <<now, limiterVars, pc, arg, wake, tmp, exc, envVars, client, callVars>>
    /\ UNCHANGED <<latest, ai_result, analysis, sheet, html_result, pushVars>>

\* the published HTML table of the sheet is parsed
ParseHtml ==
    /\ html_result = NotParsed
    /\ html_result' = ParseHtmlTable(sheet)
    /\ UNCHANGED <<now, limiterVars, pc, arg, wake, tmp, exc, envVars, client, callVars>>
    /\ UNCHANGED <<latest, ai_result, analysis, sheet, csv_result, pushVars>>

(* ---------------------------- daily_push.py --------------------------- *)
\* daily_push.py lines 537-540: the keys of results, in the order of the calls
Pushes == <<"market_monitor", "momentum50">>

\* market_monitor.py lines 268-276, 482-495: every field of a parsed row is
\* the value of parse_int / parse_float, a number (0 for a cell that spells
\* none); fetch_market_monitor returns None or data whose latest is data[0]
FetchedRecords ==
    [up_4pct : {Num(0), Num(600), Num(1001)},
     down_4pct : {Num(0), Num(501)},
     ratio_5d : {Num(0), Num(21)},
     ratio_10d : {Num(0)},
     up_25pct_qtr : {Num(0), Num(100)},
     down_25pct_qtr : {Num(0), Num(300)}]

\* the sheets fetch_momentum50 finds published: two dated columns
FetchedSheets == [1..2 -> [header : {"d1", "d2"}, cells : SUBSET Tickers]]

\* momentum50.py lines 65-111: each method's result is returned if it has
\* tickers; lines 113-114: else None
Fetched(r) == IF r.ok /\ r.tickers # {} THEN r ELSE ParsedNone

\* what analyze() can return: None, an empty text, a text
AiResults == {None, Some(<< >>), Some(<<"o", "k">>)}

\* line 545: summary = f"... {success_count}/{total_count} ..."
SummaryText(success_count) ==
    IF success_count = 0 THEN "summary 0/2"
    ELSE IF success_count = 1 THEN "summary 1/2"
    ELSE "summary 2/2"

\* line 542: sum(results.values())
SuccessCount(r) == Cardinality({i \in 1..Len(Pushes) : r[Pushes[i]] = Some(TRUE)})

\* lines 326-358: send_telegram_message(text) returns True, or False when the
\* token or chat id is missing or the request fails; no caller here reads it
Send(text, delivered) ==
    messages' = Append(messages, [text |-> text, delivered |-> delivered])

\* push m returns value; lines 538-542: daily_push_all goes on
Return(m, value) ==
    /\ results' = [results EXCEPT ![m] = Some(value)]
    /\ push_pc' = IF m = Pushes[1] THEN <<Pushes[2], "fetch">>
                  ELSE <<"daily_push_all", "summary">>

\* an exception in a push: neither the push (lines 450-526) nor
\* daily_push_all (lines 529-548) has a try statement
Raise(e) ==
    /\ raised' = e
    /\ push_pc' = <<"daily_push_all", "raised">>

\* before daily_push_all is called
InitPush ==
    /\ push_pc = <<"daily_push_all", "idle">>
    /\ results = [i \in {Pushes[1], Pushes[2]} |-> None]
    /\ messages = << >>
    /\ momentum = NotParsed
    /\ raised = NoExc

\* lines 529-538: daily_push_all calls push_market_monitor()
DailyPushAll ==
    /\ push_pc = <<"daily_push_all", "idle">>
    /\ push_pc' = <<Pushes[1], "fetch">>
    /\ UNCHANGED <<now, limiterVars, pc, arg, wake, tmp, exc, envVars, client, callVars>>
    /\ UNCHANGED <<latest, ai_result, analysis, sheet, csv_result, html_result>>
    /\ UNCHANGED <<results, messages, momentum, raised>>

\* lines 460-463: data = fetch_market_monitor(); without data the error
\* message is sent and the push returns False
FetchMarketMonitor ==
    /\ push_pc = <<"market_monitor", "fetch">>
    /\ \/ \E delivered \in BOOLEAN :
              /\ Send("market_monitor failed", delivered)
              /\ Return("market_monitor", FALSE)
              /\ UNCHANGED latest
       \/ \E record \in FetchedRecords :
              /\ latest' = record
              /\ push_pc' = <<"market_monitor", "analyze">>
              /\ UNCHANGED <<results, messages>>
    /\ UNCHANGED <<now, limiterVars, pc, arg, wake, tmp, exc, envVars, client, callVars>>
    /\ UNCHANGED <<ai_result, analysis, sheet, csv_result, html_result, momentum, raised>>

\* line 466: analysis = analyze_market_breadth(data)
MarketAnalysis ==
    /\ push_pc = <<"market_monitor", "analyze">>
    /\ \E r \in AiResults :
           /\ ai_result' = r
           /\ analysis' = Breadth(latest, r)
           /\ IF Breadth(latest, r).exc # NoExc
              THEN Raise(Breadth(latest, r).exc)
              ELSE push_pc' = <<"market_monitor", "save">> /\ UNCHANGED raised
    /\ UNCHANGED <<now, limiterVars, pc, arg, wake, tmp, exc, envVars, client, callVars>>
    /\ UNCHANGED <<latest, sheet, csv_result, html_result, results, messages, momentum>>

\* lines 498-501: data = fetch_momentum50(); without data the error message
\* is sent and the push returns False
FetchMomentum50 ==
    /\ push_pc = <<"momentum50", "fetch">>
    /\ \E columns \in FetchedSheets :
       \E r \in {ParseCsvContent(columns), ParseHtmlTable(columns), ParsedNone} :
           /\ sheet' = columns
           /\ momentum' = Fetched(r)
           /\ IF Fetched(r).ok
              THEN /\ push_pc' = <<"momentum50", "descriptions">>
                   /\ UNCHANGED <<results, messages>>
              ELSE \E delivered \in BOOLEAN :
                       /\ Send("momentum50 failed", delivered)
                       /\ Return("momentum50", FALSE)
    /\ UNCHANGED <<now, limiterVars, pc, arg, wake, tmp, exc, envVars, client, callVars>>
    /\ UNCHANGED <<latest, ai_result, analysis, csv_result, html_result, raised>>

\* lines 504-506: get_ticker_descriptions is called for new entries only;
\* ai_analyzer.py lines 567-570: it calls result.strip() on what analyze()
\* returned
TickerDescriptions ==
    /\ push_pc = <<"momentum50", "descriptions">>
    /\ IF momentum.new_entries = {}
       THEN /\ push_pc' = <<"momentum50", "analyze">>
            /\ UNCHANGED <<ai_result, raised>>
       ELSE \E r \in AiResults :
                /\ ai_result' = r
                /\ IF CallerOutcome("get_ticker_descriptions", r) = "AttributeError"
                   THEN Raise("AttributeError")
                   ELSE push_pc' = <<"momentum50", "analyze">> /\ UNCHANGED raised
    /\ UNCHANGED <<now, limiterVars, pc, arg, wake, tmp, exc, envVars, client, callVars>>
    /\ UNCHANGED <<latest, analysis, sheet, csv_result, html_result>>
    /\ UNCHANGED <<results, messages, momentum>>

\* line 509: analysis = analyze_momentum_stocks(data); ai_analyzer.py lines
\* 455-463: the text of analyze() or the rule-based text
MomentumAnalysis ==
    /\ push_pc = <<"momentum50", "analyze">>
    /\ \E r \in AiResults :
           /\ ai_result' = r
           /\ CallerOutcome("analyze_momentum_stocks", r) \in {"ai", "fallback"}
    /\ push_pc' = <<"momentum50", "save">>
    /\ UNCHANGED <<now, limiterVars, pc, arg, wake, tmp, exc, envVars, client, callVars>>
    /\ UNCHANGED <<latest, analysis, sheet, csv_result, html_result>>
    /\ UNCHANGED <<results, messages, momentum, raised>>

\* lines 470 / 513, 234-257: save_md_file makes the directories and
\* writes the file; mkdir, open and write raise OSError when they fail
SaveMdFile(m) ==
    /\ push_pc = <<m, "save">>
    /\ \/ push_pc' = <<m, "github">> /\ UNCHANGED raised
       \/ Raise("OSError")
    /\ UNCHANGED <<now, limiterVars, pc, arg, wake, tmp, exc, envVars, client, callVars>>
    /\ UNCHANGED <<latest, ai_result, analysis, sheet, csv_result, html_result>>
    /\ UNCHANGED <<results, messages, momentum>>

\* lines 473 / 516, 262-321: push_to_github returns True or False, every
\* exception caught; the push does not read the value
PushToGithub(m) ==
    /\ push_pc = <<m, "github">>
    /\ \E uploaded \in BOOLEAN : push_pc' = <<m, "telegram">>
    /\ UNCHANGED <<now, limiterVars, pc, arg, wake, tmp, exc, envVars, client, callVars>>
    /\ UNCHANGED <<latest, ai_result, analysis, sheet, csv_result, html_result>>
    /\ UNCHANGED <<results, messages, momentum, raised>>

\* lines 481-485 / 522-526: the report is sent and the push returns True
SendReport(m) ==
    /\ push_pc = <<m, "telegram">>
    /\ \E delivered \in BOOLEAN :
           /\ Send(IF m = "market_monitor" THEN "market_monitor report"
                   ELSE "momentum50 report", delivered)
           /\ Return(m, TRUE)
    /\ UNCHANGED <<now, limiterVars, pc, arg, wake, tmp, exc, envVars, client, callVars>>
    /\ UNCHANGED <<latest, ai_result, analysis, sheet, csv_result, html_result>>
    /\ UNCHANGED <<momentum, raised>>

\* lines 542-548: the summary is sent and results returned
SendSummary ==
    /\ push_pc = <<"daily_push_all", "summary">>
    /\ \E delivered \in BOOLEAN : Send(SummaryText(SuccessCount(results)), delivered)
    /\ push_pc' = <<"daily_push_all", "returned">>
    /\ UNCHANGED <<now, limiterVars, pc, arg, wake, tmp, exc, envVars, client, callVars>>
    /\ UNCHANGED <<latest, ai_result, analysis, sheet, csv_result, html_result>>
    /\ UNCHANGED <<results, momentum, raised>>

(* --------------------------- specifications --------------------------- *)
\* lines 35-38: the counters at import time; no call is running
InitCounters ==
    /\ now = 0
    /\ request_counter =
           [p \in Providers |-> [count |-> 0, last_reset |-> 0, last_request |-> None]]
    /\ funcCalls = [p \in Providers |-> 0]
    /\ grants = [p \in Providers |-> 0]
    /\ pc = [c \in Callers |-> "idle"]
    /\ arg = [c \in Callers |-> NoArg]
    /\ wake = [c \in Callers |-> 0]
    /\ tmp = [c \in Callers |-> 0]
    /\ exc = [c \in Callers |-> NoExc]
    /\ fn = [c \in Callers |-> NoArg]
    /\ kind = [c \in Callers |-> NoArg]
    /\ prefer = [c \in Callers |-> NoArg]
    /\ attempt = [c \in Callers |-> 0]
    /\ log = [c \in Callers |-> << >>]
    /\ waits = [c \in Callers |-> << >>]
    /\ ret = [c \in Callers |-> None]
    /\ result = [c \in Callers |-> None]
    /\ outcome = [c \in Callers |-> NoArg]
    \* lines 128, 194: gemini_model = None, anthropic_client = None
    /\ client = [p \in Providers |-> FALSE]

\* no function on scraped data has been called
InitData ==
    /\ latest = NoRecord
    /\ ai_result = None
    /\ analysis = NotRun
    /\ sheet = << >>
    /\ csv_result = NotParsed
    /\ html_result = NotParsed
    /\ InitPush

\* the rate limiter around any wrapped function
InitLimiter ==
    /\ InitCounters
    /\ InitData
    /\ apiKey = [p \in Providers |-> TRUE]
    /\ healthy = {}

NextLimiter ==
    \/ Tick
    \/ \E c \in Callers, p \in ProviderArgs : Enter(c, p)
    \/ \E c \in Callers : Acquire(c)
    \/ \E c \in Callers : WrappedCall(c)
    \/ \E c \in Callers : WrappedRaise(c)

\* the program as it runs: one caller at a time
InitSeq == InitLimiter /\ sched = "sequential"
SpecSeq == InitSeq /\ [][NextLimiter]_vars

\* coroutines on one event loop (check_rate_limit)
InitAsync == InitLimiter /\ sched = "cooperative"
SpecAsync == InitAsync /\ [][NextLimiter]_vars

\* threads that call the function decorated with @rate_limit("gemini")
NextThreads ==
    \/ Tick
    \/ \E c \in Callers : Enter(c, "gemini")
    \/ \E c \in Callers : Acquire(c)
    \/ \E c \in Callers : WrappedCall(c)
    \/ \E c \in Callers : WrappedRaise(c)

InitThreads == InitLimiter /\ sched = "preemptive"
SpecThreads == InitThreads /\ [][NextThreads]_vars

\* analyze() and the adapters, called by one handler or job at a time
\* (lines 17-18: the keys are read from the environment at import time)
Handlers == {"c1"}

InitAnalyze ==
    /\ InitCounters
    /\ InitData
    /\ sched = "sequential"
    /\ apiKey \in [Providers -> BOOLEAN]
    /\ healthy \in SUBSET {p \in Providers : apiKey[p]}

NextAnalyze ==
    \/ Tick
    \/ \E c \in Handlers, k \in CallerKinds : AnalyzeCall(c, k, "gemini")
    \/ \E c \in Handlers, p \in Providers : AnalyzeCall(c, "analyze", p)
    \/ \E c \in Handlers, p \in Providers : AdapterCall(c, p)
    \/ \E c \in Handlers : Acquire(c)
    \/ \E c \in Handlers : AdapterInit(c)
    \/ \E c \in Handlers : AdapterAttempt(c)
    \/ \E c \in Handlers : AdapterReturn(c)
    \/ \E c \in Handlers : AnalyzeReturn(c)
    \/ \E c \in Handlers : AnalyzeExcept(c)
    \/ \E c \in Handlers : CallerHandle(c)
    \/ \E c \in Handlers : CallerReturn(c)

SpecAnalyze == InitAnalyze /\ [][NextAnalyze]_vars

(* ------------------------------ chat (bot.py) ------------------------- *)
\* bot.py line 93: await asyncio.sleep(1)
AskPause == 1

\* bot.py lines 98-103: the reply of ask_ai when generate_content raises
AskAiError(msg) ==
    LET error_msg == Lower(msg)
    IN  IF Contains(error_msg, RATE) \/ Contains(error_msg, QUOTA)
        THEN "busy"
        ELSE "error"

\* bot.py lines 81-103: a chat handler calls ask_ai(prompt): without the key
\* it replies that AI is not configured; else it sleeps one second, calls
\* gemini_model.generate_content itself and replies with the text or with an
\* error text
AskAi(c) ==
    /\ pc[c] = "idle"
    /\ MayRun(c)
    /\ fn' = [fn EXCEPT ![c] = "ask_ai"]
    /\ arg' = [arg EXCEPT ![c] = "gemini"]
    /\ IF ~apiKey["gemini"]
       THEN /\ outcome' = [outcome EXCEPT ![c] = "not_configured"]
            /\ UNCHANGED <<log, waits>>
       ELSE \E o \in ProviderOutcomes("gemini") :
              /\ waits' = [waits EXCEPT ![c] = <<AskPause>>]
              /\ log' = [log EXCEPT ![c] = <<LogEntry(o)>>]
              /\ outcome' = [outcome EXCEPT ![c] =
                                IF o.ok THEN "ai" ELSE AskAiError(o.text)]
    /\ pc' = [pc EXCEPT ![c] = "done"]
    /\ UNCHANGED <<dataVars, now, limiterVars, wake, tmp, exc, envVars, client>>
    /\ UNCHANGED <<kind, prefer, attempt, ret, result>>

\* the bot: the periodic jobs call analyze() through their callers, the chat
\* handlers call ask_ai
NextBot ==
    \/ Tick
    \/ \E c \in Handlers, k \in CallerKinds : AnalyzeCall(c, k, "gemini")
    \/ \E c \in Handlers : AskAi(c)
    \/ \E c \in Handlers : Acquire(c)
    \/ \E c \in Handlers : AdapterInit(c)
    \/ \E c \in Handlers : AdapterAttempt(c)
    \/ \E c \in Handlers : AnalyzeReturn(c)
    \/ \E c \in Handlers : AnalyzeExcept(c)
    \/ \E c \in Handlers : CallerHandle(c)
    \/ \E c \in Handlers : CallerReturn(c)

SpecBot == InitAnalyze /\ [][NextBot]_vars

\* the records a scraped sheet can give: counts and ratios around the
\* thresholds, as numbers, as strings, 'N/A', None or absent
LatestRecords ==
    [up_4pct : {Missing, NA, PyNone, Text, Num(0), Num(600), Num(1001), NumStr(1001)},
     down_4pct : {NA, Text, Num(0), Num(501), Num(1000)},
     ratio_5d : {Missing, Text, Num(7), Num(13), Num(21)},
     ratio_10d : {Num(10), Text, PyNone},
     up_25pct_qtr : {NA, Text, Num(0), Num(100), Num(400), NumStr(100)},
     down_25pct_qtr : {Missing, Text, Num(0), Num(300), Num(700)}]

\* analyze_market_breadth on every record, with and without a text from AI
InitBreadth ==
    /\ InitCounters
    /\ sched = "sequential"
    /\ apiKey = [p \in Providers |-> FALSE]
    /\ healthy = {}
    /\ latest \in LatestRecords \cup {NoRecord}
    /\ ai_result \in {None, Some(<< >>), Some(<<"o", "k">>)}
    /\ analysis = NotRun
    /\ sheet = << >>
    /\ csv_result = NotParsed
    /\ html_result = NotParsed
    /\ InitPush

NextBreadth == AnalyzeMarketBreadth

SpecBreadth == InitBreadth /\ [][NextBreadth]_vars

\* the sheets: up to MaxColumns columns, any header, any tickers
MaxColumns == 3
Columns == [header : {NoDate, "x", "d1", "d2", "d3"}, cells : SUBSET Tickers]
Sheets == UNION {[1..n -> Columns] : n \in 1..MaxColumns}

InitMomentum ==
    /\ InitCounters
    /\ sched = "sequential"
    /\ apiKey = [p \in Providers |-> FALSE]
    /\ healthy = {}
    /\ latest = NoRecord
    /\ ai_result = None
    /\ analysis = NotRun
    /\ sheet \in Sheets
    /\ csv_result = NotParsed
    /\ html_result = NotParsed
    /\ InitPush

NextMomentum ==
    \/ ParseCsv
    \/ ParseHtml

SpecMomentum == InitMomentum /\ [][NextMomentum]_vars

\* one run of daily_push_all
InitPushAll ==
    /\ InitCounters
    /\ InitData
    /\ sched = "sequential"
    /\ apiKey = [p \in Providers |-> FALSE]
    /\ healthy = {}

NextPush ==
    \/ DailyPushAll
    \/ FetchMarketMonitor
    \/ MarketAnalysis
    \/ FetchMomentum50
    \/ TickerDescriptions
    \/ MomentumAnalysis
    \/ \E i \in 1..Len(Pushes) : SaveMdFile(Pushes[i])
    \/ \E i \in 1..Len(Pushes) : PushToGithub(Pushes[i])
    \/ \E i \in 1..Len(Pushes) : SendReport(Pushes[i])
    \/ SendSummary

SpecPush == InitPushAll /\ [][NextPush]_vars

(* ------------------------------- claims ------------------------------- *)
Config(c) == RATE_LIMIT[ProviderKey(arg[c])]
Counter(c) == request_counter[ProviderKey(arg[c])]

\* C1: over every sequence of acquire calls on a provider the counter never
\* exceeds requests_per_day; the call that would exceed it raises
\* RateLimitExceeded and the wrapped function is not called for it, so the
\* wrapped function is called at most once per counted request.
C1_CountWithinLimit ==
    /\ \A k \in Providers :
           /\ request_counter[k].count <= RATE_LIMIT[k].requests_per_day
           /\ funcCalls[k] <= request_counter[k].count
    /\ \A c \in Callers :
           pc[c] = "raised" => Counter(c).count = Config(c).requests_per_day

\* a call is rejected with the counter at the limit and every counted request
\* of the window already passed on to the wrapped function
C1_Witness ==
    \E c \in Callers :
        /\ pc[c] = "raised"
        /\ Counter(c).count = Config(c).requests_per_day
        /\ funcCalls[ProviderKey(arg[c])] = Config(c).requests_per_day

\* C2: with concurrent callers on one provider the limit check, the increment
\* and the last_request update act as one atomic step: in no interleaving does
\* the counter exceed the limit, and no increment is lost (the counter is never
\* below the number of acquire calls that returned in the window).
C2_AtomicAcquire ==
    \A k \in Providers :
        /\ request_counter[k].count <= RATE_LIMIT[k].requests_per_day
        /\ grants[k] <= request_counter[k].count

\* C3: an acquire that returns normally does so at least cooldown_seconds
\* after the previous acquire on that provider returned, with sequential and
\* with concurrent callers.
C3_CooldownSpacing ==
    [][\A c \in Callers :
          (pc[c] = "stamp" /\ pc'[c] = "granted" /\ Counter(c).last_request # None)
              => now' - Counter(c).last_request[1] >= Config(c).cooldown_seconds]_vars

\* two acquires on gemini returned in one window, a cooldown apart
C3_Witness ==
    /\ request_counter["gemini"].count = 2
    /\ \E c \in Callers : pc[c] = "granted" /\ arg[c] = "gemini"

\* analyze() has returned to its caller
Returned(c) == fn[c] = "analyze" /\ pc[c] \in {"returned", "done"}
\* the last invocation of the provider gave a text
Succeeded(c) == log[c] # << >> /\ log[c][Len(log[c])] = "ok"
\* the rate limiter rejected the call: the adapter returned nothing
RateLimited(c) == ret[c] = None
\* every one of the max_retries invocations failed
AllFailed(c) == Len(log[c]) = MaxRetries /\ \A i \in 1..Len(log[c]) : log[c][i] # "ok"

\* C4: analyze() never raises; whenever the provider fails (rate limit
\* exceeded, retries exhausted, fatal error, not configured) it returns None.
C4_AnalyzeNeverRaises ==
    \A c \in Callers :
        Returned(c) =>
            /\ exc[c] = NoExc
            /\ ~Succeeded(c) => result[c] = None

\* analyze() has returned None after the rate limiter raised RateLimitExceeded
C4_Witness ==
    \E c \in Callers :
        /\ Returned(c)
        /\ RateLimited(c)
        /\ request_counter["gemini"].count = RATE_LIMIT["gemini"].requests_per_day
        /\ result[c] = None

\* C5: every caller of analyze() takes None as a handled outcome: it ends
\* normally with its non-AI fallback and raises nothing.
C5_CallersHandleNone ==
    \A c \in Callers :
        (pc[c] = "done" /\ kind[c] \in CallerKinds /\ result[c] = None)
            => outcome[c] = "fallback"

\* C6: the result of analyze() does not depend on what the text contains: a
\* text the provider generated is returned unchanged, every failure is None,
\* and the empty string is never returned.
C6_ResultIndependentOfContents ==
    \A c \in Callers :
        Returned(c) =>
            /\ Succeeded(c) => result[c] = ret[c]
            /\ ~Succeeded(c) => result[c] = None
            /\ result[c] # Some(<< >>)

\* gemini is rate-limited or has exhausted its retries, claude is configured
\* and healthy, and analyze() was called with the default preference
GeminiDownClaudeUp(c) ==
    /\ Returned(c)
    /\ prefer[c] = "gemini"
    /\ RateLimited(c) \/ AllFailed(c)
    /\ apiKey["claude"]
    /\ "claude" \in healthy

\* C7 as stated: with gemini rate-limited or exhausted and claude healthy,
\* analyze() returns claude's text, not None.
C7_Failover ==
    \A c \in Callers : GeminiDownClaudeUp(c) => result[c] # None

\* C7 as amended: analyze() does not fail over: with gemini rate-limited or
\* exhausted it returns None although claude is configured and healthy, and
\* the call has invoked no provider but gemini.
C7_NoFailover ==
    \A c \in Callers :
        GeminiDownClaudeUp(c) => (result[c] = None /\ arg[c] = "gemini")

\* gemini has failed three times while claude is healthy: None is returned
C7_Witness ==
    \E c \in Callers : GeminiDownClaudeUp(c) /\ AllFailed(c) /\ result[c] = None

\* C8 as stated: for analyze(prompt, prefer=P) with P configured, P is the
\* provider on which acquire and call are attempted first.
C8_PreferredFirst ==
    \A c \in Callers :
        (fn[c] = "analyze" /\ apiKey[prefer[c]]) => arg[c] = prefer[c]

\* C8 as amended: analyze() ignores the preference: for every P, gemini is
\* the first and the only provider on which acquire and call are attempted.
C8_GeminiOnly ==
    \A c \in Callers : fn[c] = "analyze" => arg[c] = "gemini"

\* analyze(prompt, prefer="claude") with claude configured has returned None
\* after gemini failed
C8_Witness ==
    \E c \in Callers :
        /\ Returned(c)
        /\ prefer[c] = "claude"
        /\ apiKey["claude"]
        /\ ~Succeeded(c)
        /\ result[c] = None

C10_BoundedRetries ==
    \A c \in Callers :
        /\ Len(log[c]) <= MaxRetries
        /\ pc[c] = "attempt" => Len(log[c]) < MaxRetries
        /\ (AllFailed(c) /\ pc[c] # "attempt") =>
               (ret[c] # None /\ StartsWith(ret[c][1], <<FAILED>>))
        /\ (AllFailed(c) /\ Returned(c)) => result[c] = None

\* analyze() has returned None after max_retries failed invocations, the last
\* one a rate-limit error
C10_Witness ==
    \E c \in Callers :
        /\ AllFailed(c)
        /\ Returned(c)
        /\ log[c][MaxRetries] = "marked"
        /\ result[c] = None

\* the first n invocations of the call all failed with a marked error
MarkedPrefix(c, n) == Len(log[c]) >= n /\ \A i \in 1..n : log[c][i] = "marked"

\* C11: when the provider fails with a rate, quota or 429 error on the first
\* k calls and succeeds on call k+1 <= max_retries, the adapter goes on to
\* call k+1 after each of the k failures and returns the text of that call: it
\* has made exactly k retries (k+1 invocations, k waits) and returns no
\* failure message of its own.
C11_SuccessAfterTransient ==
    \A c \in Callers :
        \A k \in 0..(MaxRetries - 1) :
            /\ (MarkedPrefix(c, k) /\ Len(log[c]) = k) =>
                   (pc[c] = "attempt" \/ k = 0)
            /\ (MarkedPrefix(c, k) /\ Len(log[c]) = k + 1 /\ log[c][k + 1] = "ok") =>
                   /\ pc[c] # "attempt"
                   /\ ret[c] # None
                   /\ ret[c][1] \in ProviderTexts
                   /\ Len(waits[c]) = k

\* gemini failed twice with a marked error and gave a text on the third call:
\* the adapter returns that text after two retries
C11_Witness ==
    \E c \in Callers :
        /\ arg[c] = "gemini"
        /\ log[c] = <<"marked", "marked", "ok">>
        /\ pc[c] = "adapter_ret"
        /\ ret[c] = Some(<<"o", "k">>)
        /\ Len(waits[c]) = 2

\* C12: the wait after failed attempt number n (n = 1, 2, ...) with a
\* rate-limit error is base x n, and a wait happens only when another attempt
\* follows it: a call that has ended made fewer waits than invocations.
C12_LinearBackoff ==
    \A c \in Callers :
        /\ \A i \in 1..Len(waits[c]) :
               waits[c][i] # RetryPause => waits[c][i] = BackoffBase * i
        /\ (pc[c] # "attempt" /\ waits[c] # << >>) => Len(waits[c]) < Len(log[c])

\* C13: both adapters classify an error message the same way: an error with a
\* rate, quota or 429 marker is followed by the backoff wait of a transient
\* error on gemini and on claude alike, and an error without a marker never is.
C13_SameClassification ==
    \A c \in Callers :
        \A i \in 1..Len(waits[c]) :
            (log[c][i] = "marked") <=> (waits[c][i] = Backoff(i - 1))

\* no tick of the clock since the window of provider entry k started: the
\* acquire calls of the window were made in immediate succession
ImmediateSuccession(k) == now = request_counter[k].last_reset

\* C14: the per-minute limit is enforced: of the acquire calls made on a
\* provider in immediate succession at most requests_per_minute return, and
\* the next one raises RateLimitExceeded.
C14_MinuteLimit ==
    \A k \in Providers :
        ImmediateSuccession(k) => grants[k] <= RATE_LIMIT[k].requests_per_minute

\* C15: the window is reset exactly once per boundary: an acquire that finds
\* more than the window length elapsed since the window start sets the count
\* to 0 and restarts the window at the current time; no other step restarts a
\* window or lowers a count, so no later acquire of the new window, sequential
\* or interleaved with the first, resets again or discards an increment.
C15_ResetOncePerBoundary ==
    [][\A k \in Providers :
          /\ (request_counter'[k].last_reset # request_counter[k].last_reset
                  \/ request_counter'[k].count < request_counter[k].count) =>
                 /\ now - request_counter[k].last_reset > DayLength
                 /\ request_counter'[k].count = 0
                 /\ request_counter'[k].last_reset = now
          /\ \A c \in Callers :
                 (pc'[c] = "check" /\ ProviderKey(arg'[c]) = k) =>
                     now - request_counter'[k].last_reset <= DayLength]_vars

\* a window was restarted after a boundary and two acquires of the new window
\* are counted in it
C15_Witness ==
    \E k \in Providers :
        /\ request_counter[k].last_reset > 0
        /\ request_counter[k].count = 2

\* C16: the reset step is idempotent: applied to a provider whose window has
\* been reset and whose window length has not elapsed since, it changes
\* neither the count nor the window start.
C16_ResetIdempotent ==
    [][\A c \in Callers :
          (/\ pc[c] = "reset"
           /\ pc'[c] = "check"
           /\ now - Counter(c).last_reset <= DayLength) =>
              request_counter' = request_counter]_vars

\* the reset step has been applied a second time in a restarted window that
\* already counts a request
C16_Witness ==
    \E c \in Callers :
        /\ pc[c] = "check"
        /\ Counter(c).last_reset > 0
        /\ Counter(c).count >= 1

\* C17: last_request, once set, never decreases and is never cleared, over
\* every sequence of acquire calls and window resets.
C17_LastRequestMonotonic ==
    [][\A k \in Providers :
          request_counter[k].last_request # None =>
              /\ request_counter'[k].last_request # None
              /\ request_counter'[k].last_request[1] >= request_counter[k].last_request[1]]_vars

\* last_request was set, the window was restarted and a later acquire has set
\* last_request again
C17_Witness ==
    \E k \in Providers :
        /\ request_counter[k].last_reset > 0
        /\ request_counter[k].last_request # None
        /\ request_counter[k].last_request[1] > request_counter[k].last_reset

\* the positions of a caller inside check_rate_limit
AcquirePcs == {"reset", "check", "cooldown", "sleep", "inc", "store", "stamp"}

\* C18: providers are independent: a step of an acquire call for provider
\* name P, whatever name P is, leaves the counter, window start and
\* last_request of every provider other than P unchanged.
C18_ProvidersIndependent ==
    [][\A c \in Callers :
          (pc[c] \in AcquirePcs /\ pc'[c] # pc[c]) =>
              \A k \in Providers \ {arg[c]} :
                  request_counter'[k] = request_counter[k]]_vars

\* C19 as stated: the cooldown wait inside acquire is the only point where an
\* analyze() call suspends its caller: the adapter and the router never sleep.
C19_OnlyCooldownSuspends ==
    \A c \in Callers : fn[c] \in {"analyze", "adapter"} => waits[c] = << >>

\* C19 as amended: an analyze() call suspends its caller in the cooldown wait
\* of acquire and, besides, in the adapter after a failed provider invocation:
\* 30 s x attempt number after a rate-limit error, 5 s after another error
\* that is not the last attempt; no other step of limiter, adapter or router
\* sleeps.
C19_SuspendsInCooldownAndRetry ==
    [][\A c \in Callers :
          /\ pc'[c] = "sleep" => pc[c] \in {"cooldown", "sleep"}
          /\ (fn[c] \in {"analyze", "adapter"} /\ waits'[c] # waits[c] /\ fn'[c] = fn[c]) =>
                 /\ pc[c] = "attempt"
                 /\ Len(log'[c]) = Len(log[c]) + 1
                 /\ log'[c][Len(log'[c])] # "ok"
                 /\ \E w \in {BackoffBase * Len(log'[c]), RetryPause} :
                        waits'[c] = Append(waits[c], w)]_vars

\* analyze() has returned after the adapter slept twice between its attempts
C19_Witness ==
    \E c \in Callers :
        /\ Returned(c)
        /\ Len(waits[c]) = 2
        /\ Succeeded(c)

\* the provider of the call of c was acquired for this call: its counter
\* counts a request and its last_request is the current time
Acquired(c) ==
    LET counter == request_counter[ProviderKey(arg[c])]
    IN  counter.count >= 1 /\ counter.last_request = Some(now)

\* C20: every call to a provider, from chat handlers as from periodic jobs,
\* is preceded by a successful acquire on that provider and counted in its
\* counter.
C20_EveryCallAcquires ==
    \A c \in Callers : log[c] # << >> => Acquired(c)

\* c is inside a call of a function decorated with @rate_limit that invokes
\* the provider
InAdapter(c) == fn[c] \in {"analyze", "adapter"}

\* C21: each granted acquire permits at most one provider invocation, adapter
\* retries included, so the network calls sent to a provider in one window
\* never exceed its per-window limit.
C21_OneCallPerGrant ==
    \A c \in Callers :
        InAdapter(c) =>
            /\ Len(log[c]) <= 1
            /\ Len(log[c]) <= RATE_LIMIT[ProviderKey(arg[c])].requests_per_day

\* C22: two consecutive network calls to one provider, the retries inside one
\* analyze() call included, are at least that provider's cooldown_seconds
\* apart: every wait between two invocations of a call is that long.
C22_RetriesKeepCooldown ==
    \A c \in Callers :
        InAdapter(c) =>
            \A i \in 1..Len(waits[c]) : waits[c][i] >= COOLDOWN_SECONDS[arg[c]]

\* C23: when the API key of the provider is not configured, analyze() makes
\* no network call to it, performs no acquire on it (counter, window start
\* and last_request unchanged, no cooldown wait) and returns None.
C23_NoKeyNoAcquire ==
    [][\A c \in Callers :
          (fn[c] = "analyze" /\ ~apiKey[arg[c]]) =>
              /\ request_counter' = request_counter
              /\ pc'[c] # "sleep"
              /\ log'[c] = << >>
              /\ Returned(c) => result[c] = None]_vars

\* C25: between window resets the counter of a provider equals the number of
\* acquire calls on it that returned normally since the reset (one more while
\* a call is between its increment and its return), whatever the provider
\* call that followed gave.
C25_CountEqualsGrants ==
    \A k \in Providers :
        request_counter[k].count =
            grants[k] + Cardinality({c \in Callers :
                                        pc[c] = "stamp" /\ ProviderKey(arg[c]) = k})

\* acquire calls were counted in a restarted window, and the provider call
\* that followed the last one failed on every attempt
C25_Witness ==
    \E c \in Callers :
        /\ AllFailed(c)
        /\ pc[c] = "adapter_ret"
        /\ Counter(c).last_reset > 0
        /\ Counter(c).count = 2
        /\ grants[ProviderKey(arg[c])] = 2

\* C26: an acquire call that raises RateLimitExceeded leaves counter, window
\* start and last_request as they were before the call and makes no cooldown
\* wait: the raising step changes nothing and is taken only with the count at
\* the limit, a reset step that changed the counter is never followed by a
\* raise, and no sleep precedes the raise.
C26_RaiseLeavesState ==
    [][\A c \in Callers :
          LET k == ProviderKey(arg[c])
          IN  /\ pc'[c] = "raised" =>
                     /\ pc[c] \in {"check", "raised"}
                     /\ request_counter' = request_counter
                     /\ wake'[c] = 0
                     /\ request_counter[k].count >= RATE_LIMIT[k].requests_per_day
              /\ (pc[c] = "reset" /\ pc'[c] = "check"
                      /\ request_counter' # request_counter) =>
                     request_counter'[k].count < RATE_LIMIT[k].requests_per_day]_vars

\* an acquire call has raised in a window that was restarted earlier, after
\* the cooldown since the last request was over
C26_Witness ==
    \E c \in Callers :
        /\ pc[c] = "raised"
        /\ Counter(c).last_reset > 0
        /\ Counter(c).last_request # None
        /\ now - Counter(c).last_request[1] >= Config(c).cooldown_seconds

\* C27: check_rate_limit and check_rate_limit_sync are equivalent: called for
\* the same provider name in the same state of the counters at the same time
\* they take the same decision, wait as long and leave the same counter.
C27_AsyncEqualsSync ==
    \A provider \in ProviderArgs :
        CheckRateLimit(request_counter, provider, now)
            = CheckRateLimitSync(request_counter, provider, now)

\* a state in which a call on gemini waits for the rest of the cooldown and
\* a call on claude is rejected
C27_Witness ==
    /\ CheckRateLimitSync(request_counter, "gemini", now).wait > 0
    /\ CheckRateLimit(request_counter, "claude", now).raised

\* analyze_market_breadth has run on a record without a usable text from AI
RuleBasedRan == analysis # NotRun /\ ~Truthy(ai_result)

\* C24: when AI is unavailable analyze_market_breadth returns a non-empty
\* text and raises nothing, for every record: fields missing, 'N/A', None or
\* strings that spell no number included.
C24_BreadthAlwaysAnswers ==
    RuleBasedRan => (analysis.exc = NoExc /\ analysis.lines # << >>)

\* every field of the record is a number, spells one, is 'N/A' or is absent
NumericInput ==
    /\ latest # NoRecord
    /\ \A i \in 1..Len(Fields) :
           latest[Fields[i]].type \in {"num", "numstr", "na", "missing"}

\* the number a field of a numeric record stands for
Number(field) ==
    IF latest[field].type \in {"na", "missing"}
    THEN IF field \in {"ratio_5d", "ratio_10d"} THEN RatioDefault ELSE 0
    ELSE latest[field].val

\* the lines of the text that are among the given ones
LinesAmong(tags) == {i \in 1..Len(analysis.lines) : analysis.lines[i] \in tags}

\* the advice the priority of the claim gives
PriorityAdvice ==
    IF 0 < Number("up_25pct_qtr") /\ Number("up_25pct_qtr") < BottomZone
    THEN "advice_bottom"
    ELSE IF Number("up_4pct") > Overheated /\ Number("ratio_5d") > RatioHot
    THEN "advice_overheated"
    ELSE IF Number("ratio_5d") > RatioUp /\ Number("up_4pct") > Number("down_4pct")
    THEN "advice_uptrend"
    ELSE IF Number("ratio_5d") < RatioDown /\ Number("down_4pct") > Number("up_4pct")
    THEN "advice_downtrend"
    ELSE "advice_wait"

\* C28: for every numeric input the rule-based analysis has exactly one
\* short-term line, one mid-term line and one advice line; the advice is
\* chosen by the priority bottom zone, overheated, uptrend, downtrend, wait;
\* the bottom-zone and the overheated advice come with their signal line.
C28_RuleBasedLines ==
    (RuleBasedRan /\ NumericInput) =>
        /\ analysis.exc = NoExc
        /\ Cardinality(LinesAmong({"short_strong", "short_weak", "short_flat"})) = 1
        /\ Cardinality(LinesAmong({"mid_strong", "mid_weak", "mid_flat"})) = 1
        /\ Cardinality(LinesAmong({"advice_bottom", "advice_overheated", "advice_uptrend",
                                   "advice_downtrend", "advice_wait"})) = 1
        /\ analysis.lines[Len(analysis.lines)] = PriorityAdvice
        /\ PriorityAdvice = "advice_bottom" => LinesAmong({"signal_bottom"}) # {}
        /\ PriorityAdvice = "advice_overheated" => LinesAmong({"signal_overheated"}) # {}

\* a numeric record in the bottom zone whose short-term numbers are those of
\* an uptrend: the advice is the bottom-zone one, with its signal line
C28_Witness ==
    /\ RuleBasedRan
    /\ NumericInput
    /\ Number("ratio_5d") > RatioUp
    /\ Number("up_4pct") > Number("down_4pct")
    /\ analysis.lines[Len(analysis.lines)] = "advice_bottom"
    /\ LinesAmong({"signal_bottom"}) # {}

\* the dated columns of the sheet: a date in the first row and a ticker below
DatedColumns ==
    SelectSeq([i \in 1..Len(sheet) |-> i],
              LAMBDA i : IsDate(sheet[i].header) /\ sheet[i].cells # {})

\* what the claim says of one parsed result
AsClaimed(r) ==
    /\ r.new_entries \cap r.dropped = {}
    /\ r.new_entries \subseteq r.tickers
    /\ r.dropped \cap r.tickers = {}
    /\ IF Len(DatedColumns) >= 2
       THEN LET latest_tickers == sheet[DatedColumns[1]].cells
                prev_tickers == sheet[DatedColumns[2]].cells
            IN  /\ r.new_entries = latest_tickers \ prev_tickers
                /\ r.dropped = prev_tickers \ latest_tickers
       ELSE r.new_entries = {} /\ r.dropped = {}

\* C29: for every parsed sheet with at least two dated columns new_entries is
\* the latest tickers minus the previous day's and dropped the previous day's
\* minus the latest, so they are disjoint, every new entry is in the latest
\* list and no dropped ticker is; with fewer than two dated columns both are
\* empty; parse_csv_content and parse_html_table agree on this.
C29_NewAndDropped ==
    /\ csv_result.ok => AsClaimed(csv_result)
    /\ html_result.ok => AsClaimed(html_result)
    /\ (csv_result.ok /\ html_result.ok) =>
           /\ csv_result.new_entries = html_result.new_entries
           /\ csv_result.dropped = html_result.dropped

\* C30: daily_push_all always runs the market-monitor push and then the
\* momentum-50 push and afterwards sends the summary whose success count is
\* the number of pushes that returned True, whatever fetching, AI analysis,
\* file saving, GitHub upload or Telegram sending did in either push: when
\* daily_push_all has ended, both pushes have returned and the last text
\* given to send_telegram_message is the summary with that count.
C30_BothPushesThenSummary ==
    push_pc[1] = "daily_push_all" /\ push_pc[2] \in {"returned", "raised"} =>
        /\ \A i \in 1..Len(Pushes) : results[Pushes[i]] # None
        /\ messages # << >>
        /\ messages[Len(messages)].text = SummaryText(SuccessCount(results))

====
